---- MODULE Spec2Model ----
(***************************************************************************)
(* Model of the Express backend of docgen: the path normaliser, the        *)
(* comment tag parser and the parameter merge of utils.js, and the         *)
(* CallExpression visitor of parser.js (parseFile).                        *)
(*                                                                         *)
(* Strings are sequences of one-character strings wherever the code looks  *)
(* inside them (path literals, parameter names, status codes); free text   *)
(* (descriptions, generic tag values) is a sequence of opaque words.       *)
(* JavaScript values of differing type that can meet in one place are      *)
(* records: Str(..) a string, Arr(..) an array, Undefined, Null; an object *)
(* is a record of its properties.                                          *)
(***************************************************************************)
EXTENDS Integers, Sequences, FiniteSets, TLC

VARIABLES
    pc,              \* position of the run: "start", "normalized", "walk", "done", "threw", ...
    routePath,       \* the path literal handed to normalizeExpressPath
    norm,            \* result of normalizeExpressPath(routePath)
    renorm,          \* result of normalizeExpressPath(norm.normalized_path)
    comment,         \* the comment block handed to extractCommentMetadata
    commentMeta,     \* result of extractCommentMetadata
    cur,             \* parseFile: the statement of the tree being walked
    todo,            \* parseFile: the call expressions of cur still to visit
    routes,          \* parseFile: const routes = []
    processedChains, \* parseFile: const processedChains = new Set()
    chainRuns,       \* history: how often each chain key was processed
    mark,            \* history: routes.length when cur was entered
    stmtNo,          \* parseFile: the number of statements entered so far
    entered,         \* history: the statements entered so far, in order
    allRoutes,       \* the file loop: let allRoutes = []
    fileNo           \* the file loop: the number of files handed to parseFile so far

normVars == <<routePath, norm, renorm>>
tagVars == <<comment, commentMeta>>
walkVars == <<cur, todo, routes, processedChains, chainRuns, mark, stmtNo, entered>>
loopVars == <<allRoutes, fileNo>>
vars == <<pc, normVars, tagVars, walkVars, loopVars>>

----------------------------------------------------------------------------
(* Bounds of the model *)

MaxPathLen == 5      \* characters of a path literal given to the normaliser alone
MaxLines == 3        \* lines of a comment block given to the tag parser alone
MaxArgPathLen == 4   \* characters of the path literal of a direct call
MaxDocLines == 2     \* lines of the comment block of a direct call
MaxSegs == 3         \* method segments of a chain
MaxStmts == 2        \* statements of a file
MaxMiddlewares == 2  \* middleware arguments of a call
MaxFiles == 2        \* files of the input directory

----------------------------------------------------------------------------
(* Characters *)

\* The characters path literals are drawn from.
PathAlphabet == {":", "a", "1", "/", "(", "?", ")"}

\* [a-zA-Z_] restricted to the characters of the model
IsIdStart(c) == c \in {"a", "b", "c", "_"}

\* [a-zA-Z0-9_] restricted to the characters of the model
IsIdChar(c) == IsIdStart(c) \/ c \in {"0", "1", "2", "3", "4", "5", "6", "7", "8", "9"}

StringsUpTo(alphabet, n) == UNION {[1..k -> alphabet] : k \in 0..n}

NoResult == [k |-> "none"]

SeqsUpTo(S, n) == UNION {[1..k -> S] : k \in 0..n}

----------------------------------------------------------------------------
(* normalizeExpressPath *)

\* The end of the longest run of identifier characters that starts at i
\* (the greedy [a-zA-Z0-9_]* of the pattern); i - 1 when p[i] is none.
RECURSIVE IdRunEnd(_, _)
IdRunEnd(p, i) ==
    IF i <= Len(p) /\ IsIdChar(p[i]) THEN IdRunEnd(p, i + 1) ELSE i - 1

\* The pattern /:([a-zA-Z_][a-zA-Z0-9_]*)/ matches at position i.
MatchesAt(p, i) == i < Len(p) /\ p[i] = ":" /\ IsIdStart(p[i + 1])

\* The structural parameter pushed by the replace callback.
ExtractedParam(paramName) ==
    [name |-> paramName, type |-> "string", in |-> "path", required |-> TRUE]

\* String.prototype.replace with the global pattern: scan from i, copy what
\* does not match, replace each match by {name} and push its parameter.
RECURSIVE ReplaceAll(_, _, _, _)
ReplaceAll(p, i, out, params) ==
    IF i > Len(p) THEN [normalized_path |-> out, extracted_params |-> params]
    ELSE IF MatchesAt(p, i)
         THEN LET e == IdRunEnd(p, i + 1)
                  paramName == SubSeq(p, i + 1, e)
              IN  ReplaceAll(p, e + 1, out \o <<"{">> \o paramName \o <<"}">>,
                             Append(params, ExtractedParam(paramName)))
         ELSE ReplaceAll(p, i + 1, Append(out, p[i]), params)

\* A pattern without the g flag: only the first match is replaced.
RECURSIVE ReplaceFirst(_, _, _)
ReplaceFirst(p, i, out) ==
    IF i > Len(p) THEN [normalized_path |-> out, extracted_params |-> <<>>]
    ELSE IF MatchesAt(p, i)
         THEN LET e == IdRunEnd(p, i + 1)
                  paramName == SubSeq(p, i + 1, e)
              IN  [normalized_path |->
                       out \o <<"{">> \o paramName \o <<"}">> \o SubSeq(p, e + 1, Len(p)),
                   extracted_params |-> <<ExtractedParam(paramName)>>]
         ELSE ReplaceFirst(p, i + 1, Append(out, p[i]))

normalizeExpressPath_firstOnly(p) == ReplaceFirst(p, 1, <<>>)

normalizeExpressPath(p) == ReplaceAll(p, 1, <<>>, <<>>)

----------------------------------------------------------------------------
(* JavaScript values *)

Undefined == [undef |-> TRUE]
Str(words) == [str |-> words]       \* a string: its atoms in order
Arr(items) == [arr |-> items]       \* an array
IsStr(v) == DOMAIN v = {"str"}
IsArr(v) == DOMAIN v = {"arr"}

\* ToBoolean: undefined, the empty string and 0 are falsy.
Truthy(v) == v # Undefined /\ v # Str(<<>>) /\ v # [num |-> 0]

\* obj[key]: undefined when the object has no such property.
Get(obj, key) == IF key \in DOMAIN obj THEN obj[key] ELSE Undefined

\* obj[f] === s for a string s (undefined equals no string)
FieldIs(obj, f, s) == f \in DOMAIN obj /\ obj[f] = s

\* obj[key] = v
Put(obj, key, v) == [x \in DOMAIN obj \cup {key} |-> IF x = key THEN v ELSE obj[x]]

EmptyObject == [x \in {} |-> Undefined]

Thrown == [threw |-> "TypeError"]

----------------------------------------------------------------------------
(* Comment lines.  A line of a comment block, after the decoration is      *)
(* stripped, is one of                                                     *)
(*   [k |-> "blank"]                         nothing left                  *)
(*   [k |-> "text", words]                   no leading "@"                *)
(*   [k |-> "tag", key, value]               "@key value"                  *)
(*   [k |-> "param", braces, type, name, loc, suffix, dash, desc]          *)
(*        "@param {type} name.loc.suffix - desc", where braces and dash    *)
(*        say whether the braces and the dash are written, loc = "" says   *)
(*        that ".loc" is missing and suffix = "" that ".suffix" is         *)
(*   [k |-> "returns", braces, type, status, dash, desc]                   *)
(*        "@returns {type} status - desc"                                  *)

\* The atoms of a description that contain the substring ".required".
HasDotRequired(words) ==
    \E i \in 1..Len(words) : words[i] \in {"not.required", ".required"}

IsTagLine(line) == line.k \in {"tag", "param", "returns"}

\* tag.slice(1).trim() of line.split(" ")
TagKey(line) == IF line.k = "tag" THEN line.key ELSE line.k

\* The text of a line after its first word, as written.
RestOfLine(line) ==
    IF line.k = "tag" THEN line.value
    ELSE (IF line.braces THEN <<"{", line.type, "}">> ELSE <<line.type>>)
         \o (IF line.k = "param"
             THEN line.name
                  \o (IF line.loc = "" THEN <<>> ELSE <<".", line.loc>>)
                  \o (IF line.suffix = "" THEN <<>> ELSE <<".", line.suffix>>)
             ELSE line.status)
         \o (IF line.dash THEN <<"-">> ELSE <<>>)
         \o line.desc

\* rest.join(" ").trim()
TagValue(line) == Str(RestOfLine(line))

\* line.match(/@param\s+{(\w+)}\s+(\w+)\.(\w+)(?:\.required)?\s*-\s*(.*)/)
ParamRegexMatches(line) ==
    /\ line.k = "param"
    /\ line.braces
    /\ line.loc # ""
    /\ line.suffix \in {"", "required"}
    /\ line.dash

\* A flag that follows the optional suffix of the pattern only.
IncludesDotRequired_suffixOnly(line) == line.suffix = "required"

\* line.includes(".required")
IncludesDotRequired(line) ==
    \/ line.loc = "required"
    \/ line.suffix = "required"
    \/ HasDotRequired(line.desc)

Null == [null |-> TRUE]

parseParamTag(line) ==
    IF ~ParamRegexMatches(line) THEN Null
    ELSE [name |-> line.name,
          in |-> line.loc,
          type |-> line.type,
          required |-> IncludesDotRequired(line),
          description |-> line.desc]

IsDigit(c) == c \in {"0", "1", "2", "3", "4", "5", "6", "7", "8", "9"}

DigitValue(c) ==
    CASE c = "0" -> 0 [] c = "1" -> 1 [] c = "2" -> 2 [] c = "3" -> 3 [] c = "4" -> 4
      [] c = "5" -> 5 [] c = "6" -> 6 [] c = "7" -> 7 [] c = "8" -> 8 [] c = "9" -> 9

\* parseInt of a string of digits
RECURSIVE parseInt(_)
parseInt(ds) ==
    IF ds = <<>> THEN 0
    ELSE 10 * parseInt(SubSeq(ds, 1, Len(ds) - 1)) + DigitValue(ds[Len(ds)])

\* line.match(/@returns\s+{(\w+)}\s+(\d{3})\s*-\s*(.*)/)
ReturnsRegexMatches(line) ==
    /\ line.k = "returns"
    /\ line.braces
    /\ Len(line.status) = 3
    /\ \A i \in 1..3 : IsDigit(line.status[i])
    /\ line.dash

parseReturnsTag(line) ==
    IF ~ReturnsRegexMatches(line) THEN Null
    ELSE [type |-> line.type,
          statusCode |-> parseInt(line.status),
          description |-> line.desc]

----------------------------------------------------------------------------
(* extractCommentMetadata *)

\* if (!metadata[key]) metadata[key] = []; metadata[key].push(parsed);
\* push is no method of a string: a truthy string under key throws.
PushParsed(st, key, parsed) ==
    LET old == Get(st.metadata, key)
    IN  IF ~Truthy(old)
        THEN [st EXCEPT !.metadata = Put(st.metadata, key, Arr(<<parsed>>))]
        ELSE IF IsArr(old)
        THEN [st EXCEPT !.metadata = Put(st.metadata, key, Arr(Append(old.arr, parsed)))]
        ELSE [st EXCEPT !.threw = TRUE]

\* The properties every object literal inherits from Object.prototype; the
\* tag names of the model that are such a property.
ObjectPrototype == {"constructor"}

\* metadata[key] of the object literal metadata: an own property, else an
\* inherited one (a function), else undefined.
GetProp(obj, key) ==
    IF key \in DOMAIN obj THEN obj[key]
    ELSE IF key \in ObjectPrototype THEN [fn |-> key]
    ELSE Undefined

\* The generic accumulation of a tag value under its key.
StoreValue(st, key, value) ==
    LET old == GetProp(st.metadata, key)
    IN  IF Truthy(old)
        THEN IF IsArr(old)
             THEN [st EXCEPT !.metadata = Put(st.metadata, key, Arr(Append(old.arr, value)))]
             ELSE [st EXCEPT !.metadata = Put(st.metadata, key, Arr(<<old, value>>))]
        ELSE [st EXCEPT !.metadata = Put(st.metadata, key, value)]

\* One iteration of the loop over the lines.
LineStep(st, line) ==
    IF st.threw THEN st
    ELSE IF IsTagLine(line)
    THEN LET key == TagKey(line)
             value == TagValue(line)
         IN  IF key = "param" /\ parseParamTag(line) # Null
             THEN PushParsed(st, key, parseParamTag(line))
             ELSE IF key = "returns" /\ parseReturnsTag(line) # Null
             THEN PushParsed(st, key, parseReturnsTag(line))
             ELSE StoreValue(st, key, value)
    ELSE [st EXCEPT !.descriptionLines = Append(st.descriptionLines, line.words)]

RECURSIVE LinesLoop(_, _, _)
LinesLoop(st, lines, i) ==
    IF i > Len(lines) THEN st ELSE LinesLoop(LineStep(st, lines[i]), lines, i + 1)

\* descriptionLines.join(" ")
RECURSIVE JoinLines(_)
JoinLines(ls) == IF ls = <<>> THEN <<>> ELSE Head(ls) \o JoinLines(Tail(ls))

\* .filter((line) => line.length > 0)
RECURSIVE DropBlank(_)
DropBlank(ls) ==
    IF ls = <<>> THEN <<>>
    ELSE IF Head(ls).k = "blank" THEN DropBlank(Tail(ls))
    ELSE <<Head(ls)>> \o DropBlank(Tail(ls))

\* path.node.leadingComments || path.parent?.leadingComments
CommentsOf(path) ==
    IF Truthy(Get(path.node, "leadingComments"))
    THEN path.node.leadingComments
    ELSE Get(path.parent, "leadingComments")

extractCommentMetadata(path) ==
    LET comments == CommentsOf(path)
    IN  IF comments = Undefined \/ Len(comments.arr) = 0
        THEN [description |-> <<>>, metadata |-> EmptyObject]
        ELSE LET last == comments.arr[Len(comments.arr)]
                 lines == DropBlank(last)
                 st == LinesLoop([threw |-> FALSE, descriptionLines |-> <<>>,
                                  metadata |-> EmptyObject], lines, 1)
             IN  IF st.threw THEN Thrown
                 ELSE [description |-> JoinLines(st.descriptionLines),
                       metadata |-> st.metadata]

----------------------------------------------------------------------------
(* mergePathParamsWithMetadata *)

\* A property name that is an array index ("0", "7", "12"; not "01"):
\* such keys of an object are enumerated first, in ascending numeric order.
IsIndexKey(name) ==
    /\ Len(name) > 0
    /\ \A i \in 1..Len(name) : IsDigit(name[i])
    /\ Len(name) = 1 \/ name[1] # "0"

\* An object whose property order matters is the sequence of its
\* [key, val] entries in order of creation.
HasKey(entries, key) == \E i \in 1..Len(entries) : entries[i].key = key

EntryOf(entries, key) == entries[CHOOSE i \in 1..Len(entries) : entries[i].key = key]

\* obj[key] = val: a new property goes last, an existing one keeps its place.
SetEntry(entries, key, val) ==
    IF HasKey(entries, key)
    THEN [i \in 1..Len(entries) |->
              IF entries[i].key = key THEN [key |-> key, val |-> val] ELSE entries[i]]
    ELSE Append(entries, [key |-> key, val |-> val])

\* delete obj[key]
RECURSIVE DeleteEntry(_, _)
DeleteEntry(entries, key) ==
    IF entries = <<>> THEN <<>>
    ELSE IF Head(entries).key = key THEN DeleteEntry(Tail(entries), key)
    ELSE <<Head(entries)>> \o DeleteEntry(Tail(entries), key)

\* The entries with index keys, ascending.
RECURSIVE SortedIndexEntries(_)
SortedIndexEntries(entries) ==
    LET idx == {i \in 1..Len(entries) : IsIndexKey(entries[i].key)}
    IN  IF idx = {} THEN <<>>
        ELSE LET m == CHOOSE i \in idx :
                          \A j \in idx : parseInt(entries[i].key) <= parseInt(entries[j].key)
             IN  <<entries[m].val>> \o SortedIndexEntries(DeleteEntry(entries, entries[m].key))

RECURSIVE NamedEntries(_)
NamedEntries(entries) ==
    IF entries = <<>> THEN <<>>
    ELSE IF IsIndexKey(Head(entries).key) THEN NamedEntries(Tail(entries))
    ELSE <<Head(entries).val>> \o NamedEntries(Tail(entries))

\* Object.values(obj): index keys ascending, then the others as created.
ObjectValues(entries) == SortedIndexEntries(entries) \o NamedEntries(entries)

\* Object.values without the index-key rule: plain creation order.
RECURSIVE ObjectValues_insertionOrder(_)
ObjectValues_insertionOrder(entries) ==
    IF entries = <<>> THEN <<>>
    ELSE <<Head(entries).val>> \o ObjectValues_insertionOrder(Tail(entries))

\* for (const param of metadataParams) if (param.in === "path") lookup[param.name] = param
RECURSIVE BuildLookup(_, _, _)
BuildLookup(metadataParams, i, lookup) ==
    IF i > Len(metadataParams) THEN lookup
    ELSE LET param == metadataParams[i]
         IN  IF FieldIs(param, "in", "path")
             THEN BuildLookup(metadataParams, i + 1, SetEntry(lookup, param.name, param))
             ELSE BuildLookup(metadataParams, i + 1, lookup)

\* A default description that is the bare parameter name.
DefaultDescription_bare(paramName) == paramName

\* `${paramName} parameter`
DefaultDescription(paramName) == paramName \o <<" parameter">>

\* A merge that takes the required flag of the documented entry.
MergedParam_docRequired(extracted, metadata) ==
    [name |-> extracted.name,
     type |-> extracted.type,
     in |-> "path",
     required |-> metadata.required,
     description |-> IF metadata.description # <<>> THEN metadata.description
                     ELSE extracted.name \o <<" parameter">>]

\* A merge that prefers the documented type.
MergedParam_docType(extracted, metadata) ==
    [name |-> extracted.name,
     type |-> IF metadata.type # "" THEN metadata.type ELSE extracted.type,
     in |-> "path",
     required |-> TRUE,
     description |-> IF metadata.description # <<>> THEN metadata.description
                     ELSE extracted.name \o <<" parameter">>]

\* The merged parameter of a structural parameter that is documented.
MergedParam(extracted, metadata) ==
    [name |-> extracted.name,
     type |-> IF extracted.type # "" THEN extracted.type
              ELSE IF metadata.type # "" THEN metadata.type ELSE "string",
     in |-> "path",
     required |-> TRUE,
     description |-> IF metadata.description # <<>> THEN metadata.description
                     ELSE DefaultDescription(extracted.name)]

\* extracted.description = `${paramName} parameter`
WithDefaultDescription(extracted) ==
    [name |-> extracted.name, type |-> extracted.type, in |-> extracted.in,
     required |-> extracted.required,
     description |-> DefaultDescription(extracted.name)]

\* The loop over the structural parameters.
RECURSIVE MergeLoop(_, _, _, _)
MergeLoop(extractedParams, i, lookup, mergedParams) ==
    IF i > Len(extractedParams) THEN [lookup |-> lookup, mergedParams |-> mergedParams]
    ELSE LET extracted == extractedParams[i]
             paramName == extracted.name
         IN  IF HasKey(lookup, paramName)
             THEN MergeLoop(extractedParams, i + 1, DeleteEntry(lookup, paramName),
                            Append(mergedParams,
                                   MergedParam(extracted, EntryOf(lookup, paramName).val)))
             ELSE MergeLoop(extractedParams, i + 1, lookup,
                            Append(mergedParams, WithDefaultDescription(extracted)))

mergePathParamsWithMetadata(extractedParams, metadataParams) ==
    LET metadataLookup == BuildLookup(metadataParams, 1, <<>>)
        after == MergeLoop(extractedParams, 1, metadataLookup, <<>>)
    IN  after.mergedParams \o ObjectValues(after.lookup)

----------------------------------------------------------------------------
(* Syntax tree nodes, as @babel/parser builds them *)

Identifier(name) == [type |-> "Identifier", name |-> name]
StringLiteral(chars) == [type |-> "StringLiteral", value |-> Str(chars)]
NumericLiteral(n) == [type |-> "NumericLiteral", value |-> [num |-> n]]
\* `a${b}`, a + b, (req, res) => {}: nodes with neither value nor name
TemplateLiteral == [type |-> "TemplateLiteral"]
BinaryExpression == [type |-> "BinaryExpression"]
ArrowFunction == [type |-> "ArrowFunctionExpression"]

MemberExpression(object, propertyName) ==
    [type |-> "MemberExpression", object |-> object, property |-> Identifier(propertyName)]

CallExpression(callee, arguments, start, end) ==
    [type |-> "CallExpression", callee |-> callee, arguments |-> arguments,
     start |-> start, end |-> end]

\* A statement `expression;` with the comment blocks written above it.
ExpressionStatement(expression, blocks) ==
    IF blocks = <<>>
    THEN [type |-> "ExpressionStatement", expression |-> expression]
    ELSE [type |-> "ExpressionStatement", expression |-> expression,
          leadingComments |-> Arr(blocks)]

HTTP_METHODS == {"get", "post", "put", "delete", "patch", "head", "options"}

\* name.toUpperCase() of the method names
toUpperCase(name) ==
    CASE name = "get" -> "GET" [] name = "post" -> "POST" [] name = "put" -> "PUT"
      [] name = "delete" -> "DELETE" [] name = "patch" -> "PATCH"
      [] name = "head" -> "HEAD" [] name = "options" -> "OPTIONS"

----------------------------------------------------------------------------
(* parseFile: the CallExpression visitor.  The visitor's state st is       *)
(* [routes, processedChains, chainRuns, threw]; chainRuns counts, for the  *)
(* claims, how often the body guarded by processedChains ran per chain.    *)

\* A slice that does not stop before the last argument.
MiddlewareNames_withHandler(args, from) ==
    [i \in 1..(IF Len(args) - from > 0 THEN Len(args) - from ELSE 0) |->
        LET arg == args[from + i]
        IN  IF "name" \in DOMAIN arg THEN arg.name ELSE "<anonymous>"]

\* args.slice(from, -1).map((arg) => arg.name || "<anonymous>"), from 0-based
MiddlewareNames(args, from) ==
    [i \in 1..(IF Len(args) - 1 - from > 0 THEN Len(args) - 1 - from ELSE 0) |->
        LET arg == args[from + i]
        IN  IF "name" \in DOMAIN arg THEN arg.name ELSE "<anonymous>"]

\* originalParams.filter((p) => p.in !== "path")
RECURSIVE NonPathParams(_)
NonPathParams(ps) ==
    IF ps = <<>> THEN <<>>
    ELSE IF ~FieldIs(Head(ps), "in", "path") THEN <<Head(ps)>> \o NonPathParams(Tail(ps))
    ELSE NonPathParams(Tail(ps))

\* From the normalisation to routes.push: the route of one registration,
\* or Thrown.  routePath is a JavaScript value, extracted the result of the
\* comment lookup.
BuildRoute(method, routePathValue, middlewares, extracted) ==
    IF extracted = Thrown THEN Thrown
    \* routePath.replace: undefined has no properties, a number no replace
    ELSE IF ~IsStr(routePathValue) THEN Thrown
    ELSE LET n == normalizeExpressPath(routePathValue.str)
             metadata == extracted.metadata
             originalParams == IF Truthy(Get(metadata, "param"))
                               THEN metadata.param ELSE Arr(<<>>)
         IN  \* originalParams.filter: a string has no filter
             IF ~IsArr(originalParams) THEN Thrown
             ELSE LET nonPathParams == NonPathParams(originalParams.arr)
                      mergedPathParams ==
                          mergePathParamsWithMetadata(n.extracted_params, originalParams.arr)
                      allParams == mergedPathParams \o nonPathParams
                      updatedMetadata == IF Len(allParams) > 0
                                         THEN Put(metadata, "param", Arr(allParams))
                                         ELSE metadata
                  IN  [method |-> method,
                       path |-> n.normalized_path,
                       description |-> extracted.description,
                       middlewares |-> middlewares,
                       metadata |-> updatedMetadata]

Emit(st, route) ==
    IF route = Thrown THEN [st EXCEPT !.threw = TRUE]
    ELSE [st EXCEPT !.routes = Append(st.routes, route)]

\* A recognizer that asks for a handler argument after the path.
IsDirectCall_needsHandler(node) ==
    /\ node.callee.type = "MemberExpression"
    /\ \E r \in {"app", "router"} : FieldIs(node.callee.object, "name", r)
    /\ \E m \in HTTP_METHODS : FieldIs(node.callee.property, "name", m)
    /\ Len(node.arguments) >= 2

\* callee is <object>.<property> with object named app or router and
\* property an HTTP method.
IsDirectCall(node) ==
    /\ node.callee.type = "MemberExpression"
    /\ \E r \in {"app", "router"} : FieldIs(node.callee.object, "name", r)
    /\ \E m \in HTTP_METHODS : FieldIs(node.callee.property, "name", m)

\* Handle basic routes like app.get(), router.post()
DirectBranch(path, st) ==
    IF st.threw \/ ~IsDirectCall(path.node) THEN st
    ELSE LET args == path.node.arguments
         IN  \* args[0].value: args[0] is undefined when there is no argument
             IF Len(args) = 0 THEN [st EXCEPT !.threw = TRUE]
             ELSE Emit(st, BuildRoute(toUpperCase(path.node.callee.property.name),
                                      Get(args[1], "value"),
                                      MiddlewareNames(args, 1),
                                      extractCommentMetadata(path)))

----------------------------------------------------------------------------
(* extractChainedRouteMetadata: the comment lookup of a chain segment,     *)
(* modelled from the specification (sections 4.2 and 4.3).                 *)

\* Section 4.2, step 3: one tag line or description line.
SpecLineStep(st, line) ==
    IF IsTagLine(line)
    THEN LET key == TagKey(line)
             old == Get(st.metadata, key)
         IN  IF key = "param"
             THEN IF parseParamTag(line) = Null THEN st
                  ELSE [st EXCEPT !.metadata = Put(st.metadata, key,
                            Arr((IF old = Undefined THEN <<>> ELSE old.arr)
                                \o <<parseParamTag(line)>>))]
             ELSE IF key = "returns"
             THEN IF parseReturnsTag(line) = Null THEN st
                  ELSE [st EXCEPT !.metadata = Put(st.metadata, key,
                            Arr((IF old = Undefined THEN <<>> ELSE old.arr)
                                \o <<parseReturnsTag(line)>>))]
             ELSE IF old = Undefined
             THEN [st EXCEPT !.metadata = Put(st.metadata, key, TagValue(line))]
             ELSE IF IsArr(old)
             THEN [st EXCEPT !.metadata = Put(st.metadata, key,
                                              Arr(Append(old.arr, TagValue(line))))]
             ELSE [st EXCEPT !.metadata = Put(st.metadata, key,
                                              Arr(<<old, TagValue(line)>>))]
    ELSE [st EXCEPT !.descriptionLines = Append(st.descriptionLines, line.words)]

RECURSIVE SpecLinesLoop(_, _, _)
SpecLinesLoop(st, lines, i) ==
    IF i > Len(lines) THEN st ELSE SpecLinesLoop(SpecLineStep(st, lines[i]), lines, i + 1)

\* Section 4.2: the tag parser on one comment block.
SpecParseBlock(block) ==
    LET st == SpecLinesLoop([descriptionLines |-> <<>>, metadata |-> EmptyObject],
                            DropBlank(block), 1)
    IN  [description |-> JoinLines(st.descriptionLines), metadata |-> st.metadata]

HasComments(node, field) == field \in DOMAIN node /\ Len(node[field].arr) > 0

LastBlock(node, field) == node[field].arr[Len(node[field].arr)]

\* Section 4.3: the precedence of the candidate comment blocks.
extractChainedRouteMetadata(methodPath, isFirstInChain, statementOrBase, previousMethodInChain) ==
    LET node == methodPath.node
        args == node.arguments
    IN  IF HasComments(node, "leadingComments")
        THEN SpecParseBlock(LastBlock(node, "leadingComments"))
        ELSE IF Len(args) > 0 /\ HasComments(args[Len(args)], "leadingComments")
        THEN SpecParseBlock(LastBlock(args[Len(args)], "leadingComments"))
        ELSE IF isFirstInChain /\ HasComments(statementOrBase, "leadingComments")
        THEN SpecParseBlock(LastBlock(statementOrBase, "leadingComments"))
        ELSE IF ~isFirstInChain /\ HasComments(previousMethodInChain, "trailingComments")
        THEN SpecParseBlock(LastBlock(previousMethodInChain, "trailingComments"))
        ELSE [description |-> <<>>, metadata |-> EmptyObject]

----------------------------------------------------------------------------
(* parseFile: chained routes like router.route("/path").get().post() *)

Unknown == Str(<<"<unknown>">>)

IsHttpMethodCall(call) ==
    /\ call.callee.type = "MemberExpression"
    /\ \E m \in HTTP_METHODS : FieldIs(call.callee.property, "name", m)

IsRouteCall(call) ==
    /\ call.callee.type = "MemberExpression"
    /\ FieldIs(call.callee.property, "name", "route")
    /\ \E r \in {"router", "app"} : FieldIs(call.callee.object, "name", r)

\* pathArg?.value || "<unknown>"
RoutePathOf(call) ==
    LET v == IF Len(call.arguments) = 0 THEN Undefined
             ELSE Get(call.arguments[1], "value")
    IN  IF Truthy(v) THEN v ELSE Unknown

\* A walk that pushes the methods instead of unshifting them.
RECURSIVE WalkChain_push(_, _)
WalkChain_push(currentCall, chainMethods) ==
    IF currentCall = Undefined \/ currentCall.type # "CallExpression"
    THEN [chainMethods |-> chainMethods, routePath |-> Unknown, baseRouteCall |-> Null]
    ELSE IF IsHttpMethodCall(currentCall)
    THEN WalkChain_push(Get(currentCall.callee, "object"),
                        Append(chainMethods,
                               [method |-> toUpperCase(currentCall.callee.property.name),
                                node |-> currentCall,
                                args |-> currentCall.arguments]))
    ELSE IF IsRouteCall(currentCall)
    THEN [chainMethods |-> chainMethods, routePath |-> RoutePathOf(currentCall),
          baseRouteCall |-> currentCall]
    ELSE WalkChain_push(Get(currentCall.callee, "object"), chainMethods)

\* The while loop that collects the methods of the chain, leftward from
\* currentCall, up to the route call.
RECURSIVE WalkChain(_, _)
WalkChain(currentCall, chainMethods) ==
    IF currentCall = Undefined \/ currentCall.type # "CallExpression"
    THEN [chainMethods |-> chainMethods, routePath |-> Unknown, baseRouteCall |-> Null]
    ELSE IF IsHttpMethodCall(currentCall)
    THEN WalkChain(Get(currentCall.callee, "object"),
                   <<[method |-> toUpperCase(currentCall.callee.property.name),
                      node |-> currentCall,
                      args |-> currentCall.arguments]>> \o chainMethods)
    ELSE IF IsRouteCall(currentCall)
    THEN [chainMethods |-> chainMethods, routePath |-> RoutePathOf(currentCall),
          baseRouteCall |-> currentCall]
    ELSE WalkChain(Get(currentCall.callee, "object"), chainMethods)

\* `${routePath}:${baseRouteCall.start}:${baseRouteCall.end}`: the two
\* offsets are the digits after the last two colons, so the key determines
\* the triple.
ChainKey(routePathValue, baseRouteCall) ==
    <<routePathValue, baseRouteCall.start, baseRouteCall.end>>

\* A forEach that takes every method for the first of its chain.
IsFirstInChain_always(index) == TRUE

\* const isFirstInChain = index === 0 (index counts from 1 here)
IsFirstInChain(index) == index = 1

\* A forEach that never hands over the previous method.
PreviousMethodInChain_none(chainMethods, index) == Null

\* index > 0 ? chainMethods[index - 1].node : null
PreviousMethodInChain(chainMethods, index) ==
    IF index > 1 THEN chainMethods[index - 1].node ELSE Null

\* chainMethods.forEach: one route per collected method, until one throws.
RECURSIVE ProcessChain(_, _, _, _)
ProcessChain(st, w, statementOrBase, index) ==
    IF st.threw \/ index > Len(w.chainMethods) THEN st
    ELSE LET methodInfo == w.chainMethods[index]
             previousMethodInChain == PreviousMethodInChain(w.chainMethods, index)
             extracted == extractChainedRouteMetadata(
                              [node |-> methodInfo.node], IsFirstInChain(index),
                              statementOrBase, previousMethodInChain)
         IN  ProcessChain(Emit(st, BuildRoute(methodInfo.method, w.routePath,
                                              MiddlewareNames(methodInfo.args, 0),
                                              extracted)),
                          w, statementOrBase, index + 1)

\* if (!processedChains.has(chainKey))
\* A visitor that never finds the chain key in the set.
AlreadyProcessed_never(processed, chainKey) == FALSE

AlreadyProcessed(processed, chainKey) == chainKey \in processed

CountOf(runs, key) == IF key \in DOMAIN runs THEN runs[key] ELSE 0

ChainBranch(path, st) ==
    IF \/ st.threw
       \/ path.node.callee.type # "MemberExpression"
       \/ path.node.callee.object.type # "CallExpression"
       \/ ~IsHttpMethodCall(path.node)
    THEN st
    ELSE LET w == WalkChain(path.node, <<>>)
         IN  IF w.routePath = Unknown \/ w.baseRouteCall = Null \/ Len(w.chainMethods) = 0
             THEN st
             ELSE LET chainKey == ChainKey(w.routePath, w.baseRouteCall)
                      statementOrBase ==
                          IF path.parent.type = "ExpressionStatement"
                          THEN path.parent ELSE w.baseRouteCall
                  IN  IF AlreadyProcessed(st.processedChains, chainKey) THEN st
                      ELSE ProcessChain(
                               [st EXCEPT
                                   !.processedChains = st.processedChains \cup {chainKey},
                                   !.chainRuns = Put(st.chainRuns, chainKey,
                                                     CountOf(st.chainRuns, chainKey) + 1)],
                               w, statementOrBase, 1)

\* The CallExpression visitor: both branches, in order.
Visitor(path, st) == ChainBranch(path, DirectBranch(path, st))

----------------------------------------------------------------------------
(* What the variables of the other specifications hold meanwhile *)

IdleNorm == routePath = <<>> /\ norm = NoResult /\ renorm = NoResult
IdleTags == comment = <<>> /\ commentMeta = NoResult
IdleLoop == allRoutes = <<>> /\ fileNo = 0
IdleWalk ==
    /\ cur = NoResult
    /\ todo = <<>>
    /\ routes = <<>>
    /\ processedChains = {}
    /\ chainRuns = EmptyObject
    /\ mark = 0
    /\ stmtNo = 0
    /\ entered = <<>>

----------------------------------------------------------------------------
(* Specification of the path normaliser alone: a path literal is drawn,    *)
(* normalised, and the normalised path is normalised again.                *)

InitNorm ==
    /\ pc = "start"
    /\ routePath \in StringsUpTo(PathAlphabet, MaxPathLen)
    /\ norm = NoResult
    /\ renorm = NoResult
    /\ IdleTags
    /\ IdleWalk
    /\ IdleLoop

Normalize ==
    /\ pc = "start"
    /\ norm' = normalizeExpressPath(routePath)
    /\ pc' = "normalized"
    /\ UNCHANGED <<routePath, renorm, tagVars, walkVars, loopVars>>

Renormalize ==
    /\ pc = "normalized"
    /\ renorm' = normalizeExpressPath(norm.normalized_path)
    /\ pc' = "renormalized"
    /\ UNCHANGED <<routePath, norm, tagVars, walkVars, loopVars>>

NextNorm == Normalize \/ Renormalize

SpecNorm == InitNorm /\ [][NextNorm]_vars

----------------------------------------------------------------------------
(* Comment lines of the model *)

ParamLine(braces, type, name, loc, suffix, dash, desc) ==
    [k |-> "param", braces |-> braces, type |-> type, name |-> name, loc |-> loc,
     suffix |-> suffix, dash |-> dash, desc |-> desc]

ReturnsLine(braces, type, status, dash, desc) ==
    [k |-> "returns", braces |-> braces, type |-> type, status |-> status,
     dash |-> dash, desc |-> desc]

TagLine(key, value) == [k |-> "tag", key |-> key, value |-> value]
TextLine(words) == [k |-> "text", words |-> words]
BlankLine == [k |-> "blank"]

\* @param {string} a.path - User ID      and the like,
\* @param {string} a.query - not.required
\* @param {string} a.required - User ID
WellFormedParamLines ==
    {ParamLine(TRUE, "string", <<"a">>, loc, suffix, TRUE, <<"User ID">>) :
        loc \in {"path", "query"}, suffix \in {"", "required"}}
    \cup {ParamLine(TRUE, "string", <<"a">>, "query", "", TRUE, <<"not.required">>),
          ParamLine(TRUE, "string", <<"a">>, "required", "", TRUE, <<"User ID">>)}

\* @param {string} a.path User ID        (no dash)
\* @param string a.path - User ID        (no braces)
\* @param {string} a - User ID           (no location)
MalformedParamLines ==
    {ParamLine(TRUE, "string", <<"a">>, "path", "", FALSE, <<"User ID">>),
     ParamLine(FALSE, "string", <<"a">>, "path", "", TRUE, <<"User ID">>),
     ParamLine(TRUE, "string", <<"a">>, "", "", TRUE, <<"User ID">>)}

\* @returns {object} 200 - Success   and   @returns {object} 20 - Success
ReturnsLines ==
    {ReturnsLine(TRUE, "object", <<"2", "0", "0">>, TRUE, <<"Success">>),
     ReturnsLine(TRUE, "object", <<"2", "0">>, TRUE, <<"Success">>)}

GenericLines ==
    {TagLine("tags", <<>>), TagLine("tags", <<"Users">>), TagLine("tags", <<"Admin">>),
     TagLine("param", <<>>), TagLine("constructor", <<>>)}

CommentLines ==
    WellFormedParamLines \cup MalformedParamLines \cup ReturnsLines \cup GenericLines
        \cup {TextLine(<<"Get", "users">>), BlankLine}

----------------------------------------------------------------------------
(* Specification of the comment tag parser alone: a comment block is drawn *)
(* and parsed as the block written above a call statement.                 *)

InitTags ==
    /\ pc = "start"
    /\ comment \in SeqsUpTo(CommentLines, MaxLines)
    /\ commentMeta = NoResult
    /\ IdleNorm
    /\ IdleWalk
    /\ IdleLoop

\* The path of a call whose statement has the block as its leading comment.
PathWithComment(block) ==
    [node |-> CallExpression(MemberExpression(Identifier("app"), "get"), <<>>, 0, 0),
     parent |-> [type |-> "ExpressionStatement", leadingComments |-> Arr(<<block>>)]]

ExtractComment ==
    /\ pc = "start"
    /\ commentMeta' = extractCommentMetadata(PathWithComment(comment))
    /\ pc' = "extracted"
    /\ UNCHANGED <<comment, normVars, walkVars, loopVars>>

NextTags == ExtractComment

SpecTags == InitTags /\ [][NextTags]_vars

----------------------------------------------------------------------------
(* parseFile: the traversal.  traverse() hands every CallExpression of the *)
(* tree to the visitor, a node before the nodes inside it; the statements  *)
(* of the file are entered one by one, top to bottom.                      *)

\* A walk that hands over the calls under the callee of a call before the
\* call itself.
RECURSIVE InnerCallPaths_innerFirst(_, _)
InnerCallPaths_innerFirst(node, parent) ==
    IF node.type # "CallExpression" THEN <<>>
    ELSE (IF node.callee.type = "MemberExpression"
          THEN InnerCallPaths_innerFirst(node.callee.object, node.callee) ELSE <<>>)
         \o <<[node |-> node, parent |-> parent]>>

\* The paths of the call expressions in and under a node, in visiting
\* order: the node itself, then what is under its callee, then what is
\* under its arguments, left to right.
RECURSIVE InnerCallPaths(_, _), ArgumentCallPaths(_, _)
InnerCallPaths(node, parent) ==
    IF node.type # "CallExpression" THEN <<>>
    ELSE <<[node |-> node, parent |-> parent]>>
         \o (IF node.callee.type = "MemberExpression"
             THEN InnerCallPaths(node.callee.object, node.callee) ELSE <<>>)
         \o ArgumentCallPaths(node, 1)

ArgumentCallPaths(call, i) ==
    IF i > Len(call.arguments) THEN <<>>
    ELSE InnerCallPaths(call.arguments[i], call) \o ArgumentCallPaths(call, i + 1)

\* The paths of the call expressions of a statement, in visiting order.
CallPaths(stmt) == InnerCallPaths(stmt.expression, stmt)

InitWalk ==
    /\ pc = "walk"
    /\ cur = NoResult
    /\ todo = <<>>
    /\ routes = <<>>
    /\ processedChains = {}
    /\ chainRuns = EmptyObject
    /\ mark = 0
    /\ stmtNo = 0
    /\ entered = <<>>
    /\ IdleNorm
    /\ IdleTags
    /\ IdleLoop

\* The walk reaches the next statement of the file, one of stmts.
EnterStatement(stmts) ==
    /\ pc = "walk"
    /\ todo = <<>>
    /\ \E stmt \in stmts :
          /\ cur' = stmt
          /\ todo' = CallPaths(stmt)
    /\ mark' = Len(routes)
    /\ stmtNo' = stmtNo + 1
    /\ entered' = Append(entered, cur')
    /\ UNCHANGED <<pc, routes, processedChains, chainRuns, normVars, tagVars, loopVars>>

\* The visitor runs on the next call expression; an exception it throws
\* ends traverse() and parseFile.
VisitCall ==
    /\ pc = "walk"
    /\ todo # <<>>
    /\ LET st == Visitor(Head(todo), [routes |-> routes,
                                      processedChains |-> processedChains,
                                      chainRuns |-> chainRuns,
                                      threw |-> FALSE])
       IN  /\ routes' = st.routes
           /\ processedChains' = st.processedChains
           /\ chainRuns' = st.chainRuns
           /\ pc' = IF st.threw THEN "threw" ELSE "walk"
    /\ todo' = Tail(todo)
    /\ UNCHANGED <<cur, mark, stmtNo, entered, normVars, tagVars, loopVars>>

\* The walk is over: return routes.
Finish ==
    /\ pc = "walk"
    /\ todo = <<>>
    /\ pc' = "done"
    /\ UNCHANGED <<normVars, tagVars, walkVars, loopVars>>

----------------------------------------------------------------------------
(* Specification of one direct call: a file of one statement               *)
(* app.get(<first argument>, ...) with a comment block of @param lines     *)
(* above it.                                                               *)

ArgAlphabet == {":", "a", "1"}

\* The @param lines of the comment of a direct call:
\*   @param {number} a.path - User ID
\*   @param {string} a.path.required -
\*   @param {string} 1.path - First
\*   @param {string} a.query - Filter
\*   @param {string} a.path User ID            (malformed: no dash)
DocLines ==
    {ParamLine(TRUE, "number", <<"a">>, "path", "", TRUE, <<"User ID">>),
     ParamLine(TRUE, "string", <<"a">>, "path", "required", TRUE, <<>>),
     ParamLine(TRUE, "string", <<"1">>, "path", "", TRUE, <<"First">>),
     ParamLine(TRUE, "string", <<"a">>, "query", "", TRUE, <<"Filter">>),
     ParamLine(TRUE, "string", <<"a">>, "path", "", FALSE, <<"User ID">>)}

DirectCall(receiver, method, args) ==
    CallExpression(MemberExpression(Identifier(receiver), method), args, 0, 40)

\* First arguments that are no string literal.
NonLiteralArgs ==
    {Identifier("userPath"), NumericLiteral(5), TemplateLiteral, BinaryExpression}

\* Arguments between the path and the handler: an identifier, an inline
\* function, a call such as rateLimit().
MiddlewareArgs ==
    {Identifier("auth"), ArrowFunction,
     CallExpression(Identifier("rateLimit"), <<>>, 20, 30)}

\* app.get("/x", /** block */ (req, res) => {}): the comment is attached to
\* the handler argument as its leading comment.
CommentedArrow(block) ==
    [type |-> "ArrowFunctionExpression", leadingComments |-> Arr(<<block>>)]

HandlerBlocks ==
    {<<TextLine(<<"Get", "users">>)>>,
     <<TextLine(<<"Get", "users">>),
       ParamLine(TRUE, "number", <<"a">>, "path", "", TRUE, <<"User ID">>)>>}

\* Undocumented calls with middlewares, on either receiver.
MiddlewareStmts ==
    {ExpressionStatement(
         DirectCall(c[1], c[2], <<StringLiteral(p)>> \o ms \o <<ArrowFunction>>), <<>>) :
        c \in {<<"app", "get">>, <<"router", "post">>, <<"router", "delete">>},
        p \in {<<>>, <<"/", "a">>, <<"/", ":", "a">>, <<":", "a", "/", ":", "1">>, <<":", "a", ":", "a">>},
        ms \in SeqsUpTo(MiddlewareArgs, MaxMiddlewares)}

\* Calls documented on the handler argument only.
HandlerDocStmts ==
    {ExpressionStatement(
         DirectCall("app", "get", <<StringLiteral(p), CommentedArrow(block)>>), <<>>) :
        p \in {<<"/", "a">>, <<"/", ":", "a">>}, block \in HandlerBlocks}

\* Calls with the path literal as their only argument, such as the
\* settings getter app.get("title").
SingleArgumentStmts ==
    {ExpressionStatement(DirectCall(c[1], c[2], <<StringLiteral(p)>>), <<>>) :
        c \in {<<"app", "get">>, <<"router", "post">>},
        p \in {<<"a">>, <<"/", "a">>, <<"/", ":", "a">>}}

DirectStmts ==
    {ExpressionStatement(DirectCall("app", "get", <<StringLiteral(p), ArrowFunction>>),
                         IF block = <<>> THEN <<>> ELSE <<block>>) :
        p \in StringsUpTo(ArgAlphabet, MaxArgPathLen), block \in SeqsUpTo(DocLines, MaxDocLines)}
    \cup {ExpressionStatement(DirectCall("app", "get", <<arg, ArrowFunction>>), <<>>) :
            arg \in NonLiteralArgs}
    \cup {ExpressionStatement(DirectCall("app", "get", <<>>), <<>>)}
    \cup MiddlewareStmts
    \cup HandlerDocStmts
    \cup SingleArgumentStmts

EnterDirect == stmtNo = 0 /\ EnterStatement(DirectStmts)

NextDirect == EnterDirect \/ VisitCall \/ Finish

SpecDirect == InitWalk /\ [][NextDirect]_vars

----------------------------------------------------------------------------
(* Specification of parseFile on a file of up to MaxStmts statements, each *)
(* a direct call or a chain on a route builder.                            *)

HandlerOnly == <<ArrowFunction>>

\* base.m1(h).m2(h)...: the chain of the first n of the methods on base.
\* Each call starts where the base starts and ends after its own arguments.
RECURSIVE ChainOn(_, _, _)
ChainOn(base, methods, n) ==
    IF n = 0 THEN base
    ELSE CallExpression(MemberExpression(ChainOn(base, methods, n - 1), methods[n]),
                        HandlerOnly, base.start, base.end + 10 * n)

\* router.route(args) as the k-th statement's leftmost call.
RouteCall(receiver, args, k) ==
    CallExpression(MemberExpression(Identifier(receiver), "route"), args, 100 * k, 100 * k + 20)

GoodPath == <<"/", ":", "a">>

ChainStmt(base, methods, blocks) ==
    ExpressionStatement(ChainOn(base, methods, Len(methods)), blocks)

\* The method names of the segments of the chains of n methods: all
\* different, or one method repeated after another one.
SegmentMethods(n) ==
    {[i \in 1..n |-> <<"get", "post", "delete", "put", "patch", "head", "options">>[i]],
     [i \in 1..n |-> IF i = 1 THEN "post" ELSE "get"]}

\* Chains of one to MaxSegs HTTP methods on router.route("/:a").
PlainChains(k) ==
    {ChainStmt(RouteCall("router", <<StringLiteral(GoodPath)>>, k), methods, <<>>) :
        methods \in UNION {SegmentMethods(n) : n \in 1..MaxSegs}}

\* Chains with a call that is no HTTP method among the segments, and a
\* documented chain.
MixedChains(k) ==
    {ChainStmt(RouteCall("app", <<StringLiteral(GoodPath)>>, k), methods, <<>>) :
        methods \in {<<"get", "all", "post">>, <<"all", "delete">>, <<"get", "post", "all">>}}
    \cup {ChainStmt(RouteCall("router", <<StringLiteral(GoodPath)>>, k), <<"get", "put">>,
                    <<<<TextLine(<<"Get", "users">>),
                        ParamLine(TRUE, "string", <<"a">>, "path", "", FALSE, <<"User ID">>)>>>>)}

\* Chains whose leftward walk finds no route path.
UnrootedChains(k) ==
    {ChainStmt(base, <<"get", "post">>, <<>>) :
        base \in {RouteCall("other", <<StringLiteral(GoodPath)>>, k),
                  RouteCall("router", <<>>, k),
                  RouteCall("router", <<Identifier("userPath")>>, k),
                  RouteCall("router", <<StringLiteral(<<>>)>>, k),
                  RouteCall("router", <<NumericLiteral(5)>>, k),
                  CallExpression(Identifier("build"), <<>>, 100 * k, 100 * k + 20)}}

\* Direct calls: well-formed ones, calls that are no registration, one with
\* a path that is no literal and one with a malformed @param line.
FileDirectStmts ==
    {ExpressionStatement(DirectCall("app", "get", <<StringLiteral(GoodPath), ArrowFunction>>),
                         <<>>),
     ExpressionStatement(DirectCall("router", "post",
                                    <<StringLiteral(GoodPath), Identifier("auth"),
                                      ArrowFunction>>),
                         <<<<ParamLine(TRUE, "string", <<"a">>, "path", "required", TRUE,
                                       <<"User ID">>)>>>>),
     ExpressionStatement(DirectCall("other", "get", <<StringLiteral(GoodPath), ArrowFunction>>),
                         <<>>),
     ExpressionStatement(DirectCall("app", "use", <<StringLiteral(GoodPath), ArrowFunction>>),
                         <<>>),
     ExpressionStatement(DirectCall("app", "get", <<Identifier("userPath"), ArrowFunction>>),
                         <<>>),
     ExpressionStatement(DirectCall("app", "get", <<StringLiteral(GoodPath), ArrowFunction>>),
                         <<<<ParamLine(TRUE, "string", <<"a">>, "path", "", FALSE,
                                       <<"User ID">>)>>>>)}

\* object.method(args)
SegmentWith(object, method, args) ==
    CallExpression(MemberExpression(object, method), args, object.start, object.end + 10)

\* Chains whose segments have middlewares: identifiers, an inline function,
\* a call; and a segment without arguments.
MiddlewareChains(k) ==
    {ExpressionStatement(
         SegmentWith(SegmentWith(RouteCall("router", <<StringLiteral(GoodPath)>>, k),
                                 "get", first),
                     "post", <<Identifier("validate"), ArrowFunction>>),
         <<>>) :
        first \in {<<Identifier("auth"), ArrowFunction, ArrowFunction>>,
                   <<CallExpression(Identifier("rateLimit"), <<>>, 100 * k + 30, 100 * k + 40),
                     Identifier("auth"), ArrowFunction>>,
                   <<>>}}

FileStmts(k) ==
    FileDirectStmts \cup PlainChains(k) \cup MixedChains(k) \cup UnrootedChains(k)
        \cup MiddlewareChains(k)

EnterNext == stmtNo < MaxStmts /\ EnterStatement(FileStmts(stmtNo + 1))

Next == EnterNext \/ VisitCall \/ Finish

Spec == InitWalk /\ [][Next]_vars

----------------------------------------------------------------------------
(* Specification of parseFile on a file of one statement: a chain of two   *)
(* segments, router.route("/:a").get(h).post(h), with a comment block, or  *)
(* none, at each place a comment can be attached: above the statement,     *)
(* above each segment, before each handler, and between the two segments   *)
(* (which the parser attaches to the first as a trailing comment).         *)

\* A comment block of one description line.
Note(word) == <<TextLine(<<word>>)>>

\* The node with its comments attached; <<>> stands for no comment.
Commented(node, leading, trailing) ==
    LET withLeading == IF leading = <<>> THEN node
                       ELSE Put(node, "leadingComments", Arr(<<leading>>))
    IN  IF trailing = <<>> THEN withLeading
        ELSE Put(withLeading, "trailingComments", Arr(<<trailing>>))

Handler(block) == IF block = <<>> THEN ArrowFunction ELSE CommentedArrow(block)

\* object.method(handler)
Segment(object, method, handler) ==
    CallExpression(MemberExpression(object, method), <<handler>>,
                   object.start, object.end + 10)

DocChainStmts ==
    {ExpressionStatement(
         Commented(Segment(Commented(Segment(RouteCall("router", <<StringLiteral(GoodPath)>>, 1),
                                             "get", Handler(h1)),
                                     o1, t1),
                           "post", Handler(h2)),
                   o2, <<>>),
         IF s = <<>> THEN <<>> ELSE <<s>>) :
        s \in {<<>>, Note("statement")},
        o1 \in {<<>>, Note("above get")},
        h1 \in {<<>>, Note("get handler")},
        t1 \in {<<>>, Note("after get")},
        o2 \in {<<>>, Note("above post")},
        h2 \in {<<>>, Note("post handler")}}

EnterChain == stmtNo = 0 /\ EnterStatement(DocChainStmts)

NextChain == EnterChain \/ VisitCall \/ Finish

SpecChain == InitWalk /\ [][NextChain]_vars

----------------------------------------------------------------------------
(* Specification of the file loop: parseFile runs on up to MaxFiles files, *)
(* one after the other, each a file of at most one statement, and its      *)
(* result is concatenated onto allRoutes.  The chains of all files start   *)
(* at the same offsets, so chains of different files can have the same     *)
(* chain key.                                                              *)

\* A loop that hands the set of the previous traversal to the next one.
NewProcessedChains_shared(previous) == previous

\* const processedChains = new Set(), whatever set the previous call of
\* parseFile ended with.
NewProcessedChains(previous) == {}

LoopStmts ==
    {ChainStmt(RouteCall("router", <<StringLiteral(GoodPath)>>, 1), methods, <<>>) :
        methods \in {<<"get">>, <<"get", "post">>, <<"post", "delete">>}}
    \cup {ChainStmt(RouteCall("router", <<StringLiteral(<<"/", "a">>)>>, 1), <<"get", "post">>, <<>>),
          ChainStmt(RouteCall("router", <<Identifier("userPath")>>, 1), <<"get">>, <<>>),
          ExpressionStatement(DirectCall("app", "get", <<StringLiteral(GoodPath), ArrowFunction>>),
                              <<>>)}

InitLoop ==
    /\ pc = "loop"
    /\ IdleNorm
    /\ IdleTags
    /\ IdleWalk
    /\ IdleLoop

\* for (const file of files) ... parseFile(file): the call begins.
ParseFile ==
    /\ pc = "loop"
    /\ fileNo < MaxFiles
    /\ fileNo' = fileNo + 1
    /\ pc' = "walk"
    /\ routes' = <<>>
    /\ processedChains' = NewProcessedChains(processedChains)
    /\ chainRuns' = EmptyObject
    /\ cur' = NoResult
    /\ todo' = <<>>
    /\ mark' = 0
    /\ stmtNo' = 0
    /\ UNCHANGED <<entered, allRoutes, normVars, tagVars>>

EnterFileStatement == stmtNo = 0 /\ EnterStatement(LoopStmts)

\* return routes; allRoutes = allRoutes.concat(...)
ReturnRoutes ==
    /\ pc = "walk"
    /\ todo = <<>>
    /\ allRoutes' = allRoutes \o routes
    /\ pc' = "loop"
    /\ UNCHANGED <<fileNo, normVars, tagVars, walkVars>>

\* console.log(JSON.stringify(allRoutes, null, 2))
PrintRoutes ==
    /\ pc = "loop"
    /\ pc' = "done"
    /\ UNCHANGED <<normVars, tagVars, walkVars, loopVars>>

NextLoop == ParseFile \/ EnterFileStatement \/ VisitCall \/ ReturnRoutes \/ PrintRoutes

SpecLoop == InitLoop /\ [][NextLoop]_vars

----------------------------------------------------------------------------
(* The markers of a path literal, position by position *)

\* The positions of the literal p where a `:identifier` marker starts.
MarkerStarts(p) ==
    {i \in 1..Len(p) : p[i] = ":" /\ i + 1 <= Len(p) /\ IsIdStart(p[i + 1])}

\* The last character of the marker that starts at s: every character
\* between is an identifier character and the next one is not.
MarkerEnd(p, s) ==
    CHOOSE e \in (s + 1)..Len(p) :
        /\ \A j \in (s + 1)..e : IsIdChar(p[j])
        /\ e = Len(p) \/ ~IsIdChar(p[e + 1])

\* The k-th marker start, left to right.
NthMarker(p, n) ==
    CHOOSE s \in MarkerStarts(p) : Cardinality({t \in MarkerStarts(p) : t < s}) = n - 1

\* What position i of the literal becomes: a marker's colon becomes "{",
\* a marker's last character is followed by "}", everything else is kept.
Piece(p, i) ==
    (IF i \in MarkerStarts(p) THEN <<"{">> ELSE <<p[i]>>)
        \o (IF \E s \in MarkerStarts(p) : MarkerEnd(p, s) = i THEN <<"}">> ELSE <<>>)

RECURSIVE Pieces(_, _)
Pieces(p, i) == IF i > Len(p) THEN <<>> ELSE Piece(p, i) \o Pieces(p, i + 1)

----------------------------------------------------------------------------
(* C1 *)

IsChainLink(call) ==
    call.callee.type = "MemberExpression" /\ call.callee.object.type = "CallExpression"

\* The leftmost call of a chain.
RECURSIVE BaseOf(_)
BaseOf(call) == IF IsChainLink(call) THEN BaseOf(call.callee.object) ELSE call

\* The method names of the segments of a chain, left to right.
RECURSIVE SegmentNames(_)
SegmentNames(call) ==
    IF IsChainLink(call)
    THEN Append(SegmentNames(call.callee.object), call.callee.property.name)
    ELSE <<>>

IsHttpName(name) == name \in HTTP_METHODS

HttpSegments(call) == SelectSeq(SegmentNames(call), IsHttpName)

\* route(<non-empty string literal>) on app or router.
IsRouteBuilder(call) ==
    /\ call.callee.type = "MemberExpression"
    /\ call.callee.property.name = "route"
    /\ call.callee.object.type = "Identifier"
    /\ call.callee.object.name \in {"app", "router"}
    /\ Len(call.arguments) > 0
    /\ call.arguments[1].type = "StringLiteral"
    /\ call.arguments[1].value # Str(<<>>)

\* cur is a chain of at least one HTTP-method segment on a route builder.
CurIsRouteChain ==
    /\ cur # NoResult
    /\ IsRouteBuilder(BaseOf(cur.expression))
    /\ Len(HttpSegments(cur.expression)) > 0

----------------------------------------------------------------------------
(* C2 *)

\* The final parameter list of a route: metadata.param, or none.
FinalParams(route) ==
    IF "param" \in DOMAIN route.metadata THEN route.metadata["param"].arr ELSE <<>>

\* The positions of the path-location entries of a parameter list.
PathEntries(params) == {i \in 1..Len(params) : FieldIs(params[i], "in", "path")}

\* C2: in the final parameter list of every emitted route, the names of the
\* path-location entries contain no duplicates.
C2_MergeUniqueness ==
    \A r \in 1..Len(routes) :
        LET params == FinalParams(routes[r])
        IN  \A i, j \in PathEntries(params) :
                params[i].name = params[j].name => i = j

----------------------------------------------------------------------------
(* C3 *)

LiteralOf(stmt) == stmt.expression.arguments[1].value.str

DocBlockOf(stmt) ==
    IF "leadingComments" \in DOMAIN stmt THEN LastBlock(stmt, "leadingComments") ELSE <<>>

----------------------------------------------------------------------------
(* C4 *)

\* The statement is a direct call on app or router whose first argument is
\* missing or is no string literal.
IsNonLiteralDirect(stmt) ==
    /\ stmt # NoResult
    /\ IsDirectCall(stmt.expression)
    /\ \/ Len(stmt.expression.arguments) = 0
       \/ stmt.expression.arguments[1].type # "StringLiteral"

\* C4: a direct call whose first argument is not a string literal is
\* skipped: the visitor emits no route for it and raises no exception.
C4_NonLiteralPathSkipped ==
    (IsNonLiteralDirect(cur) /\ todo = <<>>) =>
        /\ pc # "threw"
        /\ Len(routes) = mark

----------------------------------------------------------------------------
(* C5 *)

\* An @param or @returns line that fails its grammar.
IsMalformedTagLine(line) ==
    \/ IsTagLine(line) /\ TagKey(line) = "param" /\ ~ParamRegexMatches(line)
    \/ IsTagLine(line) /\ TagKey(line) = "returns" /\ ~ReturnsRegexMatches(line)

\* A direct call whose path is no literal, or whose comment holds a tag
\* line that fails the param/returns grammar.
IsMalformedRegistration(stmt) ==
    /\ stmt # NoResult
    /\ IsDirectCall(stmt.expression)
    /\ \/ IsNonLiteralDirect(stmt)
       \/ \E l \in 1..Len(DocBlockOf(stmt)) : IsMalformedTagLine(DocBlockOf(stmt)[l])

\* C5: the traversal never aborts on a malformed registration: the walk
\* goes on to the statements after it.
C5_TraversalNeverAborts == IsMalformedRegistration(cur) => pc # "threw"

----------------------------------------------------------------------------
(* C6 *)

RemoveAt(seq, i) == SubSeq(seq, 1, i - 1) \o SubSeq(seq, i + 1, Len(seq))

\* C6: a malformed @param or @returns line contributes nothing: the
\* description and metadata parsed from a block equal those parsed from the
\* same block with that line removed.
C6_MalformedLinesDropped ==
    pc = "extracted" =>
        \A i \in 1..Len(comment) :
            IsMalformedTagLine(comment[i]) =>
                commentMeta = extractCommentMetadata(PathWithComment(RemoveAt(comment, i)))

----------------------------------------------------------------------------
(* C7 *)

IsParamRecord(v) == {"name", "in", "type", "required", "description"} \subseteq DOMAIN v
IsReturnRecord(v) == {"type", "statusCode", "description"} \subseteq DOMAIN v

\* C7: after parsing any comment block, metadata.param and metadata.returns,
\* when present, are sequences of structured Param/Return records: never a
\* scalar string, and with no raw string among the elements.
C7_ParamAndReturnsAreRecordLists ==
    (pc = "extracted" /\ commentMeta # Thrown) =>
        /\ "param" \in DOMAIN commentMeta.metadata =>
              /\ IsArr(commentMeta.metadata["param"])
              /\ \A i \in 1..Len(commentMeta.metadata["param"].arr) :
                    IsParamRecord(commentMeta.metadata["param"].arr[i])
        /\ "returns" \in DOMAIN commentMeta.metadata =>
              /\ IsArr(commentMeta.metadata["returns"])
              /\ \A i \in 1..Len(commentMeta.metadata["returns"].arr) :
                    IsReturnRecord(commentMeta.metadata["returns"].arr[i])

----------------------------------------------------------------------------
(* C8 *)

\* C8: the normalised path is the literal with each `:identifier` marker
\* replaced in place by `{identifier}` and every other character unchanged,
\* and the structural parameter list has one entry per marker occurrence
\* (type "string", in "path", required true) in left-to-right order.
C8_PathNormalization ==
    pc # "start" =>
        /\ norm.normalized_path = Pieces(routePath, 1)
        /\ Len(norm.extracted_params) = Cardinality(MarkerStarts(routePath))
        /\ \A n \in 1..Len(norm.extracted_params) :
              LET s == NthMarker(routePath, n)
              IN  norm.extracted_params[n] =
                      [name |-> SubSeq(routePath, s + 1, MarkerEnd(routePath, s)),
                       type |-> "string", in |-> "path", required |-> TRUE]

\* A literal with two markers has been normalised.
C8_Witness ==
    /\ pc = "normalized"
    /\ Cardinality(MarkerStarts(routePath)) = 2
    /\ Len(norm.extracted_params) = 2

----------------------------------------------------------------------------
(* C9 *)

\* The literal holds a non-capturing regex group, "(?:" ... .
HasNonCapturingGroup(p) ==
    \E i \in 1..(Len(p) - 2) : p[i] = "(" /\ p[i + 1] = "?" /\ p[i + 2] = ":"

\* C9: a path literal that uses non-parameter path syntax (here: a
\* non-capturing regex group) is returned unchanged by the normaliser and
\* yields an empty structural parameter list.
C9_NonParamSyntaxUnchanged ==
    (pc # "start" /\ HasNonCapturingGroup(routePath)) =>
        /\ norm.normalized_path = routePath
        /\ norm.extracted_params = <<>>

----------------------------------------------------------------------------
(* C10 *)

\* C10: normalising the normalised path of any literal returns that path
\* unchanged with an empty structural parameter list.
C10_NormalizationIdempotent ==
    pc = "renormalized" =>
        /\ renorm.normalized_path = norm.normalized_path
        /\ renorm.extracted_params = <<>>

\* A literal with a marker has been normalised twice.
C10_Witness ==
    /\ pc = "renormalized"
    /\ norm.extracted_params # <<>>
    /\ norm.normalized_path # routePath

----------------------------------------------------------------------------
(* C11 *)

\* The name of the n-th marker of the literal p, left to right.
MarkerName(p, n) ==
    LET s == NthMarker(p, n) IN SubSeq(p, s + 1, MarkerEnd(p, s))

MarkerNames(p) == {MarkerName(p, n) : n \in 1..Cardinality(MarkerStarts(p))}

\* The lines of a block that document a path parameter.
PathDocLines(block) ==
    {l \in 1..Len(block) : ParamRegexMatches(block[l]) /\ block[l].loc = "path"}

\* C11: in the route of a direct call, the entry of every structural path
\* parameter n (one per marker, in literal order) has required = true, and
\* its description is the description of a documented path parameter named
\* n when one with a non-empty description exists, and "<n> parameter"
\* otherwise.
C11_MergePrecedence ==
    (pc # "threw" /\ Len(routes) = 1 /\ cur # NoResult) =>
        LET params == FinalParams(routes[1])
            p == LiteralOf(cur)
            block == DocBlockOf(cur)
        IN  /\ Cardinality(MarkerStarts(p)) <= Len(params)
            /\ \A i \in 1..Cardinality(MarkerStarts(p)) :
                  LET n == MarkerName(p, i)
                      documented == {block[l].desc : l \in {d \in PathDocLines(block) :
                                         block[d].name = n /\ block[d].desc # <<>>}}
                  IN  /\ params[i].name = n
                      /\ params[i].required = TRUE
                      /\ IF documented # {}
                         THEN params[i].description \in documented
                         ELSE params[i].description = n \o <<" parameter">>

----------------------------------------------------------------------------
(* C12 *)

\* The records of the lines of a block that document a parameter outside
\* the path, in declared order.
RECURSIVE OtherDocumented(_)
OtherDocumented(block) ==
    IF block = <<>> THEN <<>>
    ELSE (IF ParamRegexMatches(Head(block)) /\ Head(block).loc # "path"
          THEN <<parseParamTag(Head(block))>> ELSE <<>>)
         \o OtherDocumented(Tail(block))

\* C12: the final parameter list of the route of a direct call whose
\* comment holds only well-formed lines is: the structural parameters in
\* literal order; then the documented path parameters absent from the
\* literal, in the relative order of their @param lines; then the
\* documented non-path parameters, unchanged and in declared order.
C12_FinalParamOrder ==
    (/\ pc # "threw" /\ Len(routes) = 1 /\ cur # NoResult
     /\ \A l \in 1..Len(DocBlockOf(cur)) : ~IsMalformedTagLine(DocBlockOf(cur)[l])) =>
        LET params == FinalParams(routes[1])
            p == LiteralOf(cur)
            block == DocBlockOf(cur)
            n == Cardinality(MarkerStarts(p))
            other == OtherDocumented(block)
            m == Len(params) - Len(other)
        IN  /\ n <= m
            /\ \A i \in 1..n : params[i].name = MarkerName(p, i) /\ params[i]["in"] = "path"
            /\ \A i \in (n + 1)..m :
                  /\ params[i]["in"] = "path"
                  /\ params[i].name \notin MarkerNames(p)
            /\ \A i, j \in (n + 1)..m :
                  i < j => \E li, lj \in PathDocLines(block) :
                               /\ li < lj
                               /\ parseParamTag(block[li]) = params[i]
                               /\ parseParamTag(block[lj]) = params[j]
            /\ SubSeq(params, m + 1, Len(params)) = other

----------------------------------------------------------------------------
(* C13 *)

\* The elements of a sequence.
Elements(seq) == {seq[i] : i \in 1..Len(seq)}

\* The statement is a direct call on app or router with a string literal
\* as its first argument.
IsLiteralDirect(stmt) ==
    /\ stmt # NoResult
    /\ IsDirectCall(stmt.expression)
    /\ Len(stmt.expression.arguments) > 0
    /\ stmt.expression.arguments[1].type = "StringLiteral"

\* C13: once a direct call has been visited, no error was raised and every
\* documented path parameter whose name is no marker of the path literal
\* is, unchanged, an entry of the final parameter list of its route.
C13_MismatchSurfaced ==
    (IsLiteralDirect(cur) /\ todo = <<>>) =>
        LET block == DocBlockOf(cur)
            absent == {l \in PathDocLines(block) : block[l].name \notin MarkerNames(LiteralOf(cur))}
        IN  absent # {} =>
                /\ pc # "threw"
                /\ Len(routes) = 1
                /\ \A l \in absent :
                      parseParamTag(block[l]) \in Elements(FinalParams(routes[1]))

----------------------------------------------------------------------------
(* C14 *)

\* The names of the generic tags of a block: every tag name but param and
\* returns.
GenericKeys(block) ==
    {block[i].key : i \in {j \in 1..Len(block) :
                              block[j].k = "tag" /\ block[j].key \notin {"param", "returns"}}}

\* The values of the lines of the block that carry the tag, in line order.
RECURSIVE ValuesOf(_, _)
ValuesOf(block, key) ==
    IF block = <<>> THEN <<>>
    ELSE (IF Head(block).k = "tag" /\ Head(block).key = key
          THEN <<Str(Head(block).value)>> ELSE <<>>)
         \o ValuesOf(Tail(block), key)

\* C14: for every tag name other than param/returns that occurs k times in
\* the block, metadata[tag] is the scalar value when k = 1 and the sequence
\* of all k values in line order when k >= 2, whatever the values are (an
\* empty remainder included).
C14_GenericTagsAccumulate ==
    (pc = "extracted" /\ commentMeta # Thrown) =>
        \A key \in GenericKeys(comment) :
            LET values == ValuesOf(comment, key)
            IN  /\ key \in DOMAIN commentMeta.metadata
                /\ commentMeta.metadata[key] =
                       IF Len(values) = 1 THEN values[1] ELSE Arr(values)

----------------------------------------------------------------------------
(* C15 *)

HasNoComment(node) ==
    "leadingComments" \notin DOMAIN node /\ "trailingComments" \notin DOMAIN node

LastArgOf(call) == call.arguments[Len(call.arguments)]

\* A direct call with a literal path, no comment block before the call and
\* one before its terminal handler argument.
IsHandlerDocumented(stmt) ==
    /\ IsLiteralDirect(stmt)
    /\ HasNoComment(stmt)
    /\ HasNoComment(stmt.expression)
    /\ Len(stmt.expression.arguments) > 1
    /\ HasComments(LastArgOf(stmt.expression), "leadingComments")

\* C15: for a direct call without a comment block before the call, the
\* block before its terminal handler argument is selected: the route's
\* description is the description of that block and every tag of the block
\* is a key of the route's metadata.
C15_HandlerCommentSelected ==
    (IsHandlerDocumented(cur) /\ todo = <<>>) =>
        /\ pc # "threw"
        /\ Len(routes) = mark + 1
        /\ LET block == LastBlock(LastArgOf(cur.expression), "leadingComments")
               parsed == extractCommentMetadata(PathWithComment(block))
           IN  /\ routes[mark + 1].description = parsed.description
               /\ DOMAIN parsed.metadata \subseteq DOMAIN routes[mark + 1].metadata

----------------------------------------------------------------------------
(* C18 *)

\* A direct call (path literal, m1..mk, handler) with no comment on the
\* statement, the call or the handler.
IsUndocumentedDirect(stmt) ==
    /\ IsLiteralDirect(stmt)
    /\ Len(stmt.expression.arguments) >= 2
    /\ HasNoComment(stmt)
    /\ HasNoComment(stmt.expression)
    /\ HasNoComment(LastArgOf(stmt.expression))

\* The name that stands for an argument in the middleware list.
NameOfArgument(arg) == IF arg.type = "Identifier" THEN arg.name ELSE "<anonymous>"

\* The structural parameters of a literal, each with its default
\* description.
DefaultParams(p) ==
    [i \in 1..Cardinality(MarkerStarts(p)) |->
        [name |-> MarkerName(p, i), type |-> "string", in |-> "path", required |-> TRUE,
         description |-> MarkerName(p, i) \o <<" parameter">>]]

\* C18: an undocumented direct call with a literal path and arguments
\* (path, m1..mk, handler) yields exactly one route: the upper-cased
\* method, the normalised path, an empty description, the middlewares
\* m1..mk, and metadata that holds only param with the structural
\* parameters and their default descriptions ({} without markers).
C18_UndocumentedDirectCall ==
    (IsUndocumentedDirect(cur) /\ todo = <<>>) =>
        LET call == cur.expression
            p == LiteralOf(cur)
        IN  /\ pc \in {"walk", "done"}
            /\ Len(routes) = mark + 1
            /\ routes[mark + 1].method = toUpperCase(call.callee.property.name)
            /\ routes[mark + 1].path = Pieces(p, 1)
            /\ routes[mark + 1].description = <<>>
            /\ routes[mark + 1].middlewares =
                   [i \in 1..(Len(call.arguments) - 2) |-> NameOfArgument(call.arguments[i + 1])]
            /\ IF MarkerStarts(p) = {}
               THEN DOMAIN routes[mark + 1].metadata = {}
               ELSE /\ DOMAIN routes[mark + 1].metadata = {"param"}
                    /\ routes[mark + 1].metadata["param"] = Arr(DefaultParams(p))

\* router.post("/:a/:1"-like literal, two middlewares, handler) without any
\* comment has been visited and its route emitted.
C18_Witness ==
    /\ IsUndocumentedDirect(cur)
    /\ todo = <<>>
    /\ Len(cur.expression.arguments) = 4
    /\ cur.expression.callee.property.name = "post"
    /\ Cardinality(MarkerStarts(LiteralOf(cur))) = 2
    /\ Len(routes) = 1
    /\ routes[1].middlewares = <<"auth", "<anonymous>">>

----------------------------------------------------------------------------
(* C16 *)

\* The segment of the chain in cur that calls the method.
RECURSIVE SegmentOf(_, _)
SegmentOf(call, method) ==
    IF call.callee.property.name = method THEN call
    ELSE SegmentOf(call.callee.object, method)

\* The segment has a comment block of its own or on its handler.
HasOwnDoc(segment) ==
    \/ HasComments(segment, "leadingComments")
    \/ HasComments(LastArgOf(segment), "leadingComments")

\* The chain get-then-post of cur has been walked and its two routes
\* emitted.
ChainWalked ==
    /\ cur # NoResult
    /\ todo = <<>>
    /\ HttpSegments(cur.expression) = <<"get", "post">>
    /\ Len(routes) = mark + 2

\* C16: the comment block above the statement of a chain documents the
\* first segment exactly when that segment has no comment of its own and
\* none on its handler, and it never documents a segment that is not the
\* first.
C16_BaseCommentFirstOnly ==
    (ChainWalked /\ HasComments(cur, "leadingComments")) =>
        LET base == JoinLines(<<LastBlock(cur, "leadingComments")[1].words>>)
            first == SegmentOf(cur.expression, "get")
        IN  /\ ~HasOwnDoc(first) => routes[mark + 1].description = base
            /\ HasOwnDoc(first) => routes[mark + 1].description # base
            /\ routes[mark + 2].description # base

\* A chain documented above the statement only: the GET route has the
\* statement's description, the POST route has none.
C16_Witness ==
    /\ ChainWalked
    /\ HasComments(cur, "leadingComments")
    /\ ~HasOwnDoc(SegmentOf(cur.expression, "get"))
    /\ ~HasOwnDoc(SegmentOf(cur.expression, "post"))
    /\ ~HasComments(SegmentOf(cur.expression, "get"), "trailingComments")
    /\ routes[mark + 1].description = <<"statement">>
    /\ routes[mark + 2].description = <<>>

----------------------------------------------------------------------------
(* C17 *)

\* C17: a segment that is not the first of its chain and has no comment of
\* its own and none on its handler is documented by the trailing comment
\* of the previous method call of the chain.
C17_PreviousTrailingComment ==
    ChainWalked =>
        LET previous == SegmentOf(cur.expression, "get")
            second == SegmentOf(cur.expression, "post")
        IN  (~HasOwnDoc(second) /\ HasComments(previous, "trailingComments")) =>
                routes[mark + 2].description =
                    JoinLines(<<LastBlock(previous, "trailingComments")[1].words>>)

\* A chain with a comment above the statement and one between .get and
\* .post: the POST route has the description written between the two.
C17_Witness ==
    /\ ChainWalked
    /\ HasComments(cur, "leadingComments")
    /\ ~HasOwnDoc(SegmentOf(cur.expression, "post"))
    /\ HasComments(SegmentOf(cur.expression, "get"), "trailingComments")
    /\ routes[mark + 2].description = <<"after get">>
    /\ routes[mark + 2].method = "POST"

----------------------------------------------------------------------------
(* C19 *)

\* The calls of the HTTP-method segments of a chain, left to right.
RECURSIVE HttpSegmentCalls(_)
HttpSegmentCalls(call) ==
    IF IsChainLink(call)
    THEN HttpSegmentCalls(call.callee.object)
         \o (IF IsHttpName(call.callee.property.name) THEN <<call>> ELSE <<>>)
    ELSE <<>>

\* The names of the arguments lo..hi of a call.
ArgumentNames(call, lo, hi) ==
    [i \in 1..(hi - lo + 1) |-> NameOfArgument(call.arguments[lo + i - 1])]

\* C19: the middlewares of the route of a direct call are the names of
\* the arguments strictly between the first and the last, in order; those
\* of the route of a chain segment are the names of all its arguments but
\* the last; an identifier gives its name, anything else "<anonymous>".
C19_Middlewares ==
    /\ (IsLiteralDirect(cur) /\ todo = <<>> /\ Len(routes) = mark + 1) =>
          routes[mark + 1].middlewares =
              ArgumentNames(cur.expression, 2, Len(cur.expression.arguments) - 1)
    /\ (CurIsRouteChain /\ todo = <<>> /\ pc # "threw") =>
          LET calls == HttpSegmentCalls(cur.expression)
          IN  /\ Len(routes) = mark + Len(calls)
              /\ \A i \in 1..Len(calls) :
                    routes[mark + i].middlewares =
                        ArgumentNames(calls[i], 1, Len(calls[i].arguments) - 1)

\* A chain whose first segment has a call and an identifier before its
\* handler has been walked, after a direct call with one middleware.
C19_Witness ==
    /\ CurIsRouteChain
    /\ todo = <<>>
    /\ stmtNo = 2
    /\ Len(routes) = 3
    /\ routes[1].middlewares = <<"auth">>
    /\ routes[2].middlewares = <<"<anonymous>", "auth">>
    /\ routes[3].middlewares = <<"validate">>

----------------------------------------------------------------------------
(* C20 *)

\* The registrations of a statement in source order, each as the method
\* and the path of its route: one for a direct call with a literal path,
\* one per HTTP-method segment, left to right, for a chain on a route
\* builder, none otherwise.
RegistrationsOf(stmt) ==
    IF IsLiteralDirect(stmt)
    THEN <<[method |-> toUpperCase(stmt.expression.callee.property.name),
            path |-> Pieces(LiteralOf(stmt), 1)]>>
    ELSE IF IsRouteBuilder(BaseOf(stmt.expression))
    THEN [i \in 1..Len(HttpSegments(stmt.expression)) |->
              [method |-> toUpperCase(HttpSegments(stmt.expression)[i]),
               path |-> Pieces(BaseOf(stmt.expression).arguments[1].value.str, 1)]]
    ELSE <<>>

RECURSIVE RegistrationsOfAll(_)
RegistrationsOfAll(stmts) ==
    IF stmts = <<>> THEN <<>>
    ELSE RegistrationsOf(Head(stmts)) \o RegistrationsOfAll(Tail(stmts))

\* C20: whenever the walk has finished a statement without an exception,
\* the route sequence is, by method and path, the sequence of the
\* registrations of the statements entered so far: statement after
\* statement top to bottom, the routes of one chain next to each other in
\* left-to-right chain order.
C20_OutputOrder ==
    (todo = <<>> /\ pc # "threw") =>
        [i \in 1..Len(routes) |-> [method |-> routes[i].method, path |-> routes[i].path]]
            = RegistrationsOfAll(entered)

\* A three-segment chain after a direct call: four routes, the chain's
\* three after the direct call's.
C20_Witness ==
    /\ pc = "done"
    /\ Len(entered) = 2
    /\ IsLiteralDirect(entered[1])
    /\ Len(HttpSegments(entered[2].expression)) = 3
    /\ HttpSegments(entered[2].expression)[1] # HttpSegments(entered[2].expression)[3]
    /\ Len(routes) = 4

----------------------------------------------------------------------------
(* C21 *)

\* C21: whenever parseFile has returned, allRoutes holds, by method and
\* path, the registrations of the statements of all files handed over so
\* far, file after file: a chain is emitted whatever chains the earlier
\* files held, also when an earlier file has a chain with the same route
\* path and the same offsets of the base call.
C21_DedupSetPerFile ==
    pc = "loop" =>
        [i \in 1..Len(allRoutes) |->
            [method |-> allRoutes[i].method, path |-> allRoutes[i].path]]
            = RegistrationsOfAll(entered)

\* Two files with the same chain at the same offsets have been parsed: the
\* two routes of the chain are in allRoutes twice.
C21_Witness ==
    /\ pc = "loop"
    /\ fileNo = 2
    /\ Len(entered) = 2
    /\ entered[1] = entered[2]
    /\ Len(HttpSegments(entered[1].expression)) = 2
    /\ IsRouteBuilder(BaseOf(entered[1].expression))
    /\ Len(allRoutes) = 4

----------------------------------------------------------------------------
(* C22 *)

\* route(<string literal>) on a receiver named app or router.
IsStringRouteCall(call) ==
    /\ call.callee.type = "MemberExpression"
    /\ call.callee.property.name = "route"
    /\ call.callee.object.type = "Identifier"
    /\ call.callee.object.name \in {"app", "router"}
    /\ Len(call.arguments) > 0
    /\ call.arguments[1].type = "StringLiteral"

\* cur is a chain with HTTP-method segments whose leftmost call is no
\* route(<string literal>) on app or router.
CurIsUnrootedChain ==
    /\ cur # NoResult
    /\ IsChainLink(cur.expression)
    /\ Len(HttpSegments(cur.expression)) > 0
    /\ ~IsStringRouteCall(BaseOf(cur.expression))

\* C22: while and after the calls of a chain that reaches no
\* route(<string literal>) on app or router are visited, no exception is
\* raised, no route is emitted for it and no key with the offsets of its
\* leftmost call is in the dedup set.
C22_UnrootedChainSkipped ==
    CurIsUnrootedChain =>
        /\ pc # "threw"
        /\ Len(routes) = mark
        /\ \A key \in processedChains : key[2] # BaseOf(cur.expression).start

----------------------------------------------------------------------------
(* C23 *)

\* The text, atom by atom, holds the substring ".required": within one
\* atom, or as the atom "." followed by the atom "required".
HoldsDotRequired(atoms) ==
    \/ \E i \in 1..Len(atoms) : atoms[i] \in {".required", "not.required"}
    \/ \E i \in 1..(Len(atoms) - 1) : atoms[i] = "." /\ atoms[i + 1] = "required"

\* C23: for a comment block of well-formed @param lines, the record of each
\* line has required = true exactly when the line as written holds the
\* substring ".required", be it as the suffix after the location, as the
\* location itself or inside the description.
C23_RequiredIffDotRequired ==
    (pc = "extracted" /\ comment # <<>>
        /\ \A i \in 1..Len(comment) : ParamRegexMatches(comment[i])) =>
        /\ commentMeta # Thrown
        /\ IsArr(commentMeta.metadata["param"])
        /\ Len(commentMeta.metadata["param"].arr) = Len(comment)
        /\ \A i \in 1..Len(comment) :
              commentMeta.metadata["param"].arr[i].required
                  = HoldsDotRequired(RestOfLine(comment[i]))

\* A block of three well-formed lines: one required by its suffix, one by
\* its description only, one not required.
C23_Witness ==
    /\ pc = "extracted"
    /\ Len(comment) = 3
    /\ \A i \in 1..3 : ParamRegexMatches(comment[i])
    /\ comment[1].suffix = "required"
    /\ comment[2].suffix = "" /\ comment[2].desc = <<"not.required">>
    /\ comment[3].suffix = "" /\ comment[3].desc = <<"User ID">> /\ comment[3].loc = "path"
    /\ commentMeta.metadata["param"].arr[1].required
    /\ commentMeta.metadata["param"].arr[2].required
    /\ ~commentMeta.metadata["param"].arr[3].required

----------------------------------------------------------------------------
(* C24 *)

\* The chain key of the chain in cur is in the dedup set.
CurChainProcessed ==
    \E key \in processedChains : key[2] = BaseOf(cur.expression).start

\* C24: as soon as the chain identity of a chain on a route builder is in
\* the dedup set, one route has been emitted for every HTTP-method segment
\* of the whole chain, in chain order, whichever calls of the chain are
\* still to be visited: no segment to the right of the visited call is
\* lost (unless building one of the routes raised an exception).
C24_WholeChainCollected ==
    (CurIsRouteChain /\ CurChainProcessed /\ pc # "threw") =>
        LET segs == HttpSegments(cur.expression)
        IN  /\ Len(routes) = mark + Len(segs)
            /\ \A i \in 1..Len(segs) : routes[mark + i].method = toUpperCase(segs[i])

\* route("/:a").get(h).post(h).all(h): the walk has visited .all(h) and
\* .post(h), the chain was processed at .post(h) and both routes are
\* emitted while .get(h) is still to be visited.
C24_Witness ==
    /\ CurIsRouteChain
    /\ SegmentNames(cur.expression) = <<"get", "post", "all">>
    /\ CurChainProcessed
    /\ Len(todo) = 2
    /\ Len(routes) = mark + 2

----------------------------------------------------------------------------
(* C25 *)

\* C25: in the route of a direct call, every parameter that corresponds to
\* a marker of the path literal has type "string", whatever type a
\* matching @param line declares.
C25_MarkerParamsAreStrings ==
    (pc # "threw" /\ Len(routes) = 1 /\ cur # NoResult) =>
        LET params == FinalParams(routes[1])
            n == Cardinality(MarkerStarts(LiteralOf(cur)))
        IN  /\ n <= Len(params)
            /\ \A i \in 1..n : params[i].name = MarkerName(LiteralOf(cur), i)
                                 /\ params[i].type = "string"

\* The marker :a is documented by `@param {number} a.path - User ID`: the
\* merged parameter has the documented description and the type "string".
C25_Witness ==
    /\ pc = "done"
    /\ Len(routes) = 1
    /\ LiteralOf(cur) = <<":", "a">>
    /\ Len(DocBlockOf(cur)) = 1
    /\ DocBlockOf(cur)[1].type = "number"
    /\ ParamRegexMatches(DocBlockOf(cur)[1])
    /\ FinalParams(routes[1])[1].description = <<"User ID">>
    /\ FinalParams(routes[1])[1].type = "string"

----------------------------------------------------------------------------
(* C26 *)

\* receiver.method(<string literal>) with receiver app or router, an
\* HTTP-method name and no further argument.
IsSingleLiteralCall(stmt) ==
    /\ stmt # NoResult
    /\ stmt.expression.callee.type = "MemberExpression"
    /\ stmt.expression.callee.object.type = "Identifier"
    /\ stmt.expression.callee.object.name \in {"app", "router"}
    /\ stmt.expression.callee.property.name \in HTTP_METHODS
    /\ Len(stmt.expression.arguments) = 1
    /\ stmt.expression.arguments[1].type = "StringLiteral"

\* C26: a direct call on app/router with an HTTP-method name and a string
\* literal as its only argument emits one route: its path is the literal
\* (normalised, so the literal itself when it has no marker) and its
\* middlewares list is empty.
C26_SingleArgumentCallEmits ==
    (IsSingleLiteralCall(cur) /\ todo = <<>>) =>
        /\ pc \in {"walk", "done"}
        /\ Len(routes) = mark + 1
        /\ routes[mark + 1].method = toUpperCase(cur.expression.callee.property.name)
        /\ routes[mark + 1].path = Pieces(LiteralOf(cur), 1)
        /\ MarkerStarts(LiteralOf(cur)) = {} => routes[mark + 1].path = LiteralOf(cur)
        /\ routes[mark + 1].middlewares = <<>>

\* app.get("a") has been visited: a route GET a without middlewares.
C26_Witness ==
    /\ IsSingleLiteralCall(cur)
    /\ todo = <<>>
    /\ Len(routes) = 1
    /\ routes[1].method = "GET"
    /\ routes[1].path = <<"a">>
    /\ routes[1].middlewares = <<>>
    /\ DOMAIN routes[1].metadata = {}

====
